---- MODULE Spec2Model ----
(***************************************************************************)
(* Model of python_loki_logger: the LokiLogger class (Logger.py) and its   *)
(* exception classes (exceptions.py).                                      *)
(*                                                                         *)
(* Python values are represented as follows.                               *)
(*   - a str whose characters matter (URLs, error messages) is a sequence  *)
(*     of one-token strings; label keys, label values and levels are       *)
(*     atomic strings;                                                     *)
(*   - Optional[T] is None == <<>> or Some(x) == <<x>>;                     *)
(*   - a dict is the sequence of its <<key, value>> items in insertion     *)
(*     order, keys pairwise distinct (Python dicts keep insertion order);  *)
(*     two dicts are equal in Python when AsMap gives the same function;   *)
(*   - dict OBJECTS live in `heap`, and variables hold references to them, *)
(*     so that aliasing and in-place mutation are visible.                 *)
(***************************************************************************)
EXTENDS Integers, Sequences, FiniteSets, TLC

VARIABLES
    pc,        \* "start" | "constructed" | "ctor_failed"
    ctorArgs,  \* Option: the arguments LokiLogger(...) was called with
    ctorExc,   \* Option: the exception LokiLogger(...) raised
    self,      \* Option: the constructed LokiLogger object
    heap,      \* dict objects: reference -> Option contents
    call,      \* Option: the push call whose outcome the caller holds
    calls,     \* number of push calls made so far
    posts,     \* number of requests.post attempts made so far
    threads,   \* per thread: where its push call stands, its arguments and locals
    wire       \* the requests the HTTP transport was given, in order, with the thread

vars == <<pc, ctorArgs, ctorExc, self, heap, call, calls, posts, threads, wire>>

----------------------------------------------------------------------------
(* Bounds of the model *)

MaxUrlLen == 2      \* longest baseUrl / pushUrl argument, in characters
MaxLabels == 1      \* most items in a label dict the caller builds
MaxCalls == 2       \* most push calls in one behaviour

----------------------------------------------------------------------------
(* Python values *)

None == <<>>
Some(x) == <<x>>
IsNone(o) == o = <<>>
Val(o) == o[1]

\* Default parameter values of LokiLogger.__init__
DefaultSeverityLabel == "level"
DefaultPushUrl ==
    <<"/", "l", "o", "k", "i", "/", "a", "p", "i", "/", "v", "1", "/", "p", "u", "s", "h">>

\* value of a parameter: the argument when one was passed, else the default
Arg(o, default) == IF IsNone(o) THEN default ELSE Val(o)

(* str *)
\* mutant: looks at the first character
C1_EndsWithLooksAtStart(s, c) == Len(s) > 0 /\ s[1] = c

StrEndsWith(s, c) == Len(s) > 0 /\ s[Len(s)] = c
StrStartsWith(s, c) == Len(s) > 0 /\ s[1] = c
Truthy(s) == Len(s) > 0
Contains(s, t) ==
    \E i \in 0..(Len(s) - Len(t)) : SubSeq(s, i + 1, i + Len(t)) = t

Digit(d) == CASE d = 0 -> "0" [] d = 1 -> "1" [] d = 2 -> "2" [] d = 3 -> "3"
              [] d = 4 -> "4" [] d = 5 -> "5" [] d = 6 -> "6" [] d = 7 -> "7"
              [] d = 8 -> "8" [] d = 9 -> "9"

\* str(n) of a non-negative int: its decimal digits
RECURSIVE IntToStr(_)
IntToStr(n) == IF n < 10 THEN <<Digit(n)>>
               ELSE Append(IntToStr(n \div 10), Digit(n % 10))

(* dict *)
DictKeys(d) == {d[i][1] : i \in DOMAIN d}
DictHas(d, k) == k \in DictKeys(d)
DictGet(d, k) == d[CHOOSE i \in DOMAIN d : d[i][1] = k][2]
AsMap(d) == [k \in DictKeys(d) |-> DictGet(d, k)]

\* d[k] = v
DictSetItem(d, k, v) ==
    IF DictHas(d, k)
    THEN [i \in DOMAIN d |-> IF d[i][1] = k THEN <<k, v>> ELSE d[i]]
    ELSE Append(d, <<k, v>>)

\* d.update(e)
RECURSIVE DictUpdate(_, _)
DictUpdate(d, e) ==
    IF e = <<>> THEN d
    ELSE DictUpdate(DictSetItem(d, e[1][1], e[1][2]), Tail(e))

----------------------------------------------------------------------------
(* exceptions.py, and the requests exceptions Logger.py names *)

\* the base class of each exception class
BaseOf(cls) ==
    CASE cls = "LokiLoggerError" -> "Exception"
      [] cls = "LokiConnectionError" -> "LokiLoggerError"
      [] cls = "LokiPushError" -> "LokiLoggerError"
      [] cls = "LokiConfigurationError" -> "LokiLoggerError"
      [] cls = "RequestException" -> "OSError"
      [] cls = "ConnectionError" -> "RequestException"
      [] cls = "Timeout" -> "RequestException"
      [] cls = "ConnectTimeout" -> "Timeout"
      [] cls = "OSError" -> "Exception"
      [] cls = "Exception" -> "BaseException"

RECURSIVE IsSubclass(_, _)
IsSubclass(cls, of) ==
    \/ cls = of
    \/ cls # "BaseException" /\ IsSubclass(BaseOf(cls), of)

LokiConfigurationError(message) ==
    [cls |-> "LokiConfigurationError", args |-> message]

LokiConnectionError(message) ==
    [cls |-> "LokiConnectionError", args |-> message]

LokiPushError(message, status_code, response_text) ==
    [cls |-> "LokiPushError",
     status_code |-> status_code,
     response_text |-> response_text,
     args |-> message \o <<" (status_code=">> \o IntToStr(status_code) \o <<")">>]

----------------------------------------------------------------------------
(* LokiLogger.__init__ *)

\* references to the dict objects of the model
CtorLabelsRef == "ctor_labels"   \* the dict the caller passed as labels=...
FreshLabelsRef == "fresh"        \* the {} __init__ creates when labels is None
CallLabelsRef == "call_labels"   \* the dict the caller passes to a push as labels=...
CallExtrasRef == "call_extras"   \* the dict the caller passes to a push as extras=...
CallMessageRef == "call_message" \* the str or dict the caller passes to a push as message
MergedRef == "merged_labels"     \* local merged_labels of _call_api
PayloadRef == "payload"          \* local payload of _call_api
Refs == {CtorLabelsRef, FreshLabelsRef, CallLabelsRef, CallExtrasRef, CallMessageRef,
         MergedRef, PayloadRef}

\* __init__(self, baseUrl, auth, severity_label, pushUrl, labels) run on heap h;
\* labels is None or Some(reference to the caller's dict).
\* Result: the exception raised or the object built, and the heap afterwards.
LokiLogger_init(baseUrl, auth, severity_label, pushUrl, labels, h) ==
    IF ~Truthy(baseUrl)
    THEN [raised |-> Some(LokiConfigurationError(<<"baseUrl cannot be empty">>)),
          self |-> None, heap |-> h]
    ELSE IF StrEndsWith(baseUrl, "/")
    THEN [raised |-> Some(LokiConfigurationError(<<"baseUrl must not end with /">>)),
          self |-> None, heap |-> h]
    ELSE IF ~StrStartsWith(pushUrl, "/")
    THEN [raised |-> Some(LokiConfigurationError(<<"pushUrl must start with /">>)),
          self |-> None, heap |-> h]
    ELSE [raised |-> None,
          self |-> Some([baseUrl |-> baseUrl,
                         pushUrl |-> pushUrl,
                         severity_label |-> severity_label,
                         auth |-> auth,
                         global_labels |->
                             IF ~IsNone(labels) THEN Val(labels) ELSE FreshLabelsRef]),
          heap |-> IF ~IsNone(labels) THEN h
                   ELSE [h EXCEPT ![FreshLabelsRef] = Some(<<>>)]]

----------------------------------------------------------------------------
(* json.dumps on the values a payload holds: a str, or a dict of such values *)

JStr(s) == [t |-> "str", s |-> s]
JDict(d) == [t |-> "dict", d |-> d]
\* a dict item that holds the object at reference r
JRef(r) == [t |-> "ref", r |-> r]
\* the dict d as json.dumps reads it on heap h: each item with the object it holds
Resolve(d, h) ==
    [i \in DOMAIN d |-> <<d[i][1], IF d[i][2].t = "ref" THEN Val(h[d[i][2].r]) ELSE d[i][2]>>]

RECURSIVE JsonEncode(_)
RECURSIVE JsonItems(_)
\* the characters of json.dumps(v), as tokens
JsonEncode(v) ==
    IF v.t = "str" THEN <<"\"", v.s, "\"">>
    ELSE <<"{">> \o JsonItems(v.d) \o <<"}">>
\* "key": value, "key": value ... in the dict's insertion order
JsonItems(d) ==
    IF d = <<>> THEN <<>>
    ELSE <<"\"", d[1][1], "\"", ": ">> \o JsonEncode(d[1][2])
         \o (IF Len(d) > 1 THEN <<", ">> ELSE <<>>) \o JsonItems(Tail(d))

json_dumps(payload) == JsonEncode(JDict(payload))

RECURSIVE ParseValue(_, _)
RECURSIVE ParseItems(_, _, _)
\* the JSON value that starts at token i, and the index of the token after it
ParseValue(toks, i) ==
    IF toks[i] = "\""
    THEN [v |-> JStr(toks[i + 1]), next |-> i + 3]
    ELSE ParseItems(toks, i + 1, <<>>)
\* the items of a JSON object from token i on, added to the dict acc
ParseItems(toks, i, acc) ==
    IF toks[i] = "}"
    THEN [v |-> JDict(acc), next |-> i + 1]
    ELSE LET r == ParseValue(toks, i + 4)
         IN  ParseItems(toks,
                        IF toks[r.next] = ", " THEN r.next + 1 ELSE r.next,
                        DictSetItem(acc, toks[i + 1], r.v))

\* json.loads(text), as the tests decode the log line
json_loads(toks) == ParseValue(toks, 1).v

----------------------------------------------------------------------------
(* LokiLogger._call_api *)

SuccessStatus == 204    \* Loki returns 204 No Content on success
PostTimeout == 10       \* timeout=10 of requests.post

\* mutant: the message is stored after the extras are merged in
C11_MessageOverExtras(message, extras, h) ==
    LET base == IF ~IsNone(extras) THEN Val(h[Val(extras)]) ELSE <<>>
    IN  [h EXCEPT ![PayloadRef] = Some(DictSetItem(base, "message", JRef(message)))]

\* payload = {"message": message}; if extras is not None: payload.update(extras)
\* (message is the reference to the caller's message object)
\* mutant: the payload is built in the caller's extras dict
C19_PayloadInExtras(message, extras, h) ==
    LET h1 == [h EXCEPT ![PayloadRef] = Some(<< <<"message", JRef(message)>> >>)]
    IN  IF ~IsNone(extras)
        THEN LET p == DictUpdate(Val(h1[PayloadRef]), Val(h1[Val(extras)]))
             IN  [h1 EXCEPT ![PayloadRef] = Some(p), ![Val(extras)] = Some(p)]
        ELSE h1

BuildPayload(message, extras, h) ==
    LET h1 == [h EXCEPT ![PayloadRef] = Some(<< <<"message", JRef(message)>> >>)]
    IN  IF ~IsNone(extras)
        THEN [h1 EXCEPT ![PayloadRef] =
                 Some(DictUpdate(Val(h1[PayloadRef]), Val(h1[Val(extras)])))]
        ELSE h1

\* mutant: merged_labels = self.global_labels, without .copy()
C4_NoCopy(slf, h) == [ref |-> slf.global_labels, heap |-> h]

\* mutant: the labels of a call are merged into the stored dict itself
C15_MergesIntoStoredLabels(slf, h) == [ref |-> slf.global_labels, heap |-> h]

\* merged_labels = self.global_labels.copy(): a new dict object with the same items.
\* Result: the reference merged_labels holds, and the heap.
CopyGlobalLabels(slf, h) ==
    [ref |-> MergedRef, heap |-> [h EXCEPT ![MergedRef] = h[slf.global_labels]]]

\* mutant: the severity label is set before the caller's labels are merged in
C2_SeverityBeforeLabels(slf, level, labels, h) ==
    LET h0 == [h EXCEPT ![MergedRef] =
                  Some(DictSetItem(Val(h[slf.global_labels]), slf.severity_label, level))]
    IN  [ref |-> MergedRef,
         heap |-> IF ~IsNone(labels)
                  THEN [h0 EXCEPT ![MergedRef] =
                           Some(DictUpdate(Val(h0[MergedRef]), Val(h0[Val(labels)])))]
                  ELSE h0]

\* mutant: the default labels are merged over the caller's labels
C3_GlobalLabelsWin(slf, level, labels, h) ==
    LET base == IF ~IsNone(labels) THEN Val(h[Val(labels)]) ELSE <<>>
        merged == DictUpdate(base, Val(h[slf.global_labels]))
    IN  [ref |-> MergedRef,
         heap |-> [h EXCEPT ![MergedRef] =
                      Some(DictSetItem(merged, slf.severity_label, level))]]

\* mutant: the severity label is set inside the "if labels is not None" block
C10_SeverityInsideIf(slf, level, labels, h) ==
    LET h0 == [h EXCEPT ![MergedRef] = h[slf.global_labels]]
    IN  [ref |-> MergedRef,
         heap |-> IF ~IsNone(labels)
                  THEN [h0 EXCEPT ![MergedRef] =
                           Some(DictSetItem(
                               DictUpdate(Val(h0[MergedRef]), Val(h0[Val(labels)])),
                               slf.severity_label, level))]
                  ELSE h0]

\* if labels is not None: merged_labels.update(labels)
\* (merged is the reference merged_labels holds)
UpdateWithLabels(merged, labels, h) ==
    IF ~IsNone(labels)
    THEN [h EXCEPT ![merged] = Some(DictUpdate(Val(h[merged]), Val(h[Val(labels)])))]
    ELSE h

\* mutant: the severity label is also stored in the default labels
C16_SeverityIntoStoredLabels(slf, merged, level, h) ==
    [h EXCEPT ![merged] = Some(DictSetItem(Val(@), slf.severity_label, level)),
              ![slf.global_labels] = Some(DictSetItem(Val(@), slf.severity_label, level))]

\* mutant: the level is stored under "level" as well as under the severity label
C17_AlsoSetsLevel(slf, merged, level, h) ==
    [h EXCEPT ![merged] = Some(DictSetItem(DictSetItem(Val(@), slf.severity_label, level),
                                           "level", level))]

\* merged_labels[self.severity_label] = level
SetSeverity(slf, merged, level, h) ==
    [h EXCEPT ![merged] = Some(DictSetItem(Val(@), slf.severity_label, level))]

\* the three statements that build merged_labels
MergeLabels(slf, level, labels, h) ==
    LET c == CopyGlobalLabels(slf, h)
    IN  [ref |-> c.ref,
         heap |-> SetSeverity(slf, c.ref, level, UpdateWithLabels(c.ref, labels, c.heap))]

\* mutant: one log line per payload item
C14_LinePerPayloadItem(merged, time_ns, h) ==
    LET payload == Resolve(Val(h[PayloadRef]), h)
    IN  [streams |->
            << [stream |-> Val(h[merged]),
                values |-> [i \in DOMAIN payload |->
                               <<IntToStr(time_ns), json_dumps(<<payload[i]>>)>>]] >>]

\* reqBody, with the dict merged_labels refers to as requests serialises it
BuildReqBody(merged, time_ns, h) ==
    [streams |->
        << [stream |-> Val(h[merged]),
            values |-> << <<IntToStr(time_ns),
                          json_dumps(Resolve(Val(h[PayloadRef]), h))>> >>] >>]

\* mutant: the credentials are never passed on
C13_PostWithoutAuth(slf, url, reqBody) ==
    [url |-> url, json |-> reqBody, auth |-> None, timeout |-> PostTimeout]

\* the keyword arguments of the requests.post call
PostCall(slf, url, reqBody) ==
    IF ~IsNone(slf.auth)
    THEN [url |-> url, json |-> reqBody, auth |-> slf.auth, timeout |-> PostTimeout]
    ELSE [url |-> url, json |-> reqBody, auth |-> None, timeout |-> PostTimeout]

\* mutant: every status below 300 counts as success
C6_Any2xxIsSuccess(answer) ==
    IF answer.kind = "exception"
    THEN Some([cls |-> answer.cls, args |-> answer.text])
    ELSE IF answer.status_code >= 300
    THEN Some(LokiPushError(<<"Failed to push log to Loki">>,
                            answer.status_code, answer.text))
    ELSE None

\* the body of the try statement, given what requests.post did (answer):
\* the exception it raises, or None when it completes
TryBody(answer) ==
    IF answer.kind = "exception"
    THEN Some([cls |-> answer.cls, args |-> answer.text])
    ELSE IF answer.status_code # SuccessStatus
    THEN Some(LokiPushError(<<"Failed to push log to Loki">>,
                            answer.status_code, answer.text))
    ELSE None

\* mutant: the message names neither the URL nor the cause
C7_MessageWithoutUrl(raised, url) ==
    IF ~IsNone(raised) /\ IsSubclass(Val(raised).cls, "RequestException")
    THEN Some(LokiConnectionError(<<"Failed to connect to Loki">>))
    ELSE raised

\* mutant: the handler raises the wrong exception class
C9_RaisesConfigurationError(raised, url) ==
    IF ~IsNone(raised) /\ IsSubclass(Val(raised).cls, "RequestException")
    THEN Some(LokiConfigurationError(
             <<"Failed to connect to Loki at ">> \o url \o <<": ">> \o Val(raised).args))
    ELSE raised

\* except RequestException as e: raise LokiConnectionError(...) from e
ExceptClause(raised, url) ==
    IF ~IsNone(raised) /\ IsSubclass(Val(raised).cls, "RequestException")
    THEN Some(LokiConnectionError(
             <<"Failed to connect to Loki at ">> \o url \o <<": ">> \o Val(raised).args))
    ELSE raised

\* mutant: a failed POST is tried once more
C8_RetryOnFailure(request, answer) ==
    IF answer.kind = "exception" THEN <<request, request>> ELSE <<request>>

\* the requests.post calls one _call_api makes
PostAttempts(request, answer) == <<request>>

\* _call_api(self, level, message, extras, labels) run on heap h, where message is
\* a reference, extras and labels are None or Some(reference), and env is what the
\* clock and the endpoint do.
\* Result: the requests posted, the exception raised (None: returned None), the heap
\* when the call is over.
LokiLogger_call_api(slf, level, message, extras, labels, env, h) ==
    LET h1 == BuildPayload(message, extras, h)
        m == MergeLabels(slf, level, labels, h1)
        reqBody == BuildReqBody(m.ref, env.time_ns, m.heap)
        url == slf.baseUrl \o slf.pushUrl
        request == PostCall(slf, url, reqBody)
    IN  [posted |-> PostAttempts(request, env.answer),
         raised |-> ExceptClause(TryBody(env.answer), url),
         heap |-> [m.heap EXCEPT ![MergedRef] = None, ![PayloadRef] = None]]

\* mutant: an empty level is rejected before anything is sent
C18_RejectsEmptyLevel(slf, level, message, extras, labels, env, h) ==
    IF level = ""
    THEN [posted |-> <<>>,
          raised |-> Some([cls |-> "ValueError", args |-> <<"level must not be empty">>]),
          heap |-> h]
    ELSE LokiLogger_call_api(slf, level, message, extras, labels, env, h)

customLevel(slf, level, message, extras, labels, env, h) ==
    LokiLogger_call_api(slf, level, message, extras, labels, env, h)

error(slf, message, extras, labels, env, h) ==
    LokiLogger_call_api(slf, "error", message, extras, labels, env, h)

info(slf, message, extras, labels, env, h) ==
    LokiLogger_call_api(slf, "info", message, extras, labels, env, h)

\* mutant: warn logs at level "warning"
C12_WarnSendsWarning(slf, message, extras, labels, env, h) ==
    LokiLogger_call_api(slf, "warning", message, extras, labels, env, h)

warn(slf, message, extras, labels, env, h) ==
    LokiLogger_call_api(slf, "warn", message, extras, labels, env, h)

debug(slf, message, extras, labels, env, h) ==
    LokiLogger_call_api(slf, "debug", message, extras, labels, env, h)

----------------------------------------------------------------------------
(* The inputs the callers and the endpoint provide *)

Chars == {"/", "h"}
Strs(n) == UNION {[1..m -> Chars] : m \in 0..n}

LabelKeys == {"level", "log_level", "app"}
LabelValues == {"info", "x"}
\* the label dicts a caller builds: at most MaxLabels items, in any insertion order
LabelDicts ==
    {d \in UNION {[1..m -> LabelKeys \X LabelValues] : m \in 0..MaxLabels} :
        \A i, j \in DOMAIN d : d[i][1] = d[j][1] => i = j}

AuthPair == <<"user", "secret">>
ValidBaseUrl == <<"h">>

\* LokiLogger(...) calls: every short baseUrl and pushUrl with or without auth, and
\* every label dict and severity label on a valid URL. An argument of None is one
\* the caller did not pass.
CtorCalls ==
    [baseUrl : Strs(MaxUrlLen), pushUrl : {None} \cup {Some(u) : u \in Strs(MaxUrlLen)},
     severity_label : {None}, auth : {None, Some(AuthPair)}, labels : {None}]
    \cup
    [baseUrl : {ValidBaseUrl}, pushUrl : {None},
     severity_label : {None, Some("level"), Some("log_level")}, auth : {None},
     labels : {None} \cup {Some(d) : d \in LabelDicts}]

Messages == {JStr("db down"), JDict(<< <<"event", JStr("login")>> >>)}
ExtrasDicts == {<<>>, << <<"db", JStr("pg")>> >>, << <<"message", JStr("other")>> >>,
                << <<"db", JStr("pg")>>, <<"message", JStr("other")>> >>}
CustomLevels == {"critical", ""}

\* what requests.post does: a response with a status and a body text, or a
\* RequestException of some class whose str() is the text
Responses == [kind : {"response"}, status_code : {200, 204, 500}, text : {<<>>, <<"boom">>}]
Failures == [kind : {"exception"}, cls : {"ConnectTimeout", "ConnectionError"},
             text : {<<"timed out">>}]
Answers == Responses \cup Failures
Delivered == [kind |-> "response", status_code |-> 204, text |-> <<>>]
Rejected == [kind |-> "response", status_code |-> 500, text |-> <<"boom">>]
TimedOut == [kind |-> "exception", cls |-> "ConnectTimeout", text |-> <<"timed out">>]

\* the arguments of a push and its environment: every label dict with a success
\* and a failure, every message and extras, every answer of the endpoint
PushCalls ==
    [message : {JStr("db down")}, extras : {None},
     labels : {None} \cup {Some(d) : d \in LabelDicts},
     time_ns : {7}, answer : {Delivered, TimedOut}]
    \cup
    [message : Messages, extras : {None} \cup {Some(d) : d \in ExtrasDicts},
     labels : {None}, time_ns : {7, 1700}, answer : {Delivered}]
    \cup
    [message : Messages \ {JStr("db down")}, extras : {Some(<< <<"db", JStr("pg")>> >>)},
     labels : {None}, time_ns : {7}, answer : {Rejected}]
    \cup
    [message : {JStr("db down")}, extras : {None, Some(<< <<"db", JStr("pg")>> >>)},
     labels : {None, Some(<< <<"app", "x">> >>)}, time_ns : {7}, answer : Answers]

----------------------------------------------------------------------------
(* The state machine: a caller constructs a logger and pushes through it *)

EmptyHeap == [r \in Refs |-> None]

Threads == {"t1", "t2"}
IdleThread == [pc |-> "idle"]

Init ==
    /\ pc = "start"
    /\ ctorArgs = None
    /\ ctorExc = None
    /\ self = None
    /\ heap = EmptyHeap
    /\ call = None
    /\ calls = 0
    /\ posts = 0
    /\ threads = [t \in Threads |-> IdleThread]
    /\ wire = <<>>

\* logger = LokiLogger(baseUrl=..., ...)
Construct ==
    /\ pc = "start"
    /\ \E a \in CtorCalls :
        LET h0 == [heap EXCEPT ![CtorLabelsRef] = a.labels]
            r == LokiLogger_init(a.baseUrl, a.auth,
                                 Arg(a.severity_label, DefaultSeverityLabel),
                                 Arg(a.pushUrl, DefaultPushUrl),
                                 IF IsNone(a.labels) THEN None ELSE Some(CtorLabelsRef),
                                 h0)
        IN  /\ ctorArgs' = Some(a)
            /\ ctorExc' = r.raised
            /\ self' = r.self
            /\ heap' = r.heap
            /\ pc' = IF IsNone(r.raised) THEN "constructed" ELSE "ctor_failed"
    /\ UNCHANGED <<call, calls, posts, threads, wire>>

\* the caller changes the dict they passed as labels=, after construction
LateValue == "late"
CallerChangesLabels ==
    /\ pc = "constructed"
    /\ IsNone(call)
    /\ ~IsNone(Val(ctorArgs).labels)
    /\ heap[CtorLabelsRef] = Val(ctorArgs).labels
    /\ \E k \in LabelKeys :
         heap' = [heap EXCEPT ![CtorLabelsRef] = Some(DictSetItem(Val(@), k, LateValue))]
    /\ UNCHANGED <<pc, ctorArgs, ctorExc, self, call, calls, posts, threads, wire>>

\* what a push leaves in the state: r is the result of the method, a its arguments,
\* h0 the heap the method started on
Pushed(method, level, a, h0, r) ==
    /\ heap' = r.heap
    /\ call' = Some([method |-> method, level |-> level, message |-> a.message,
                     extras |-> a.extras, labels |-> a.labels,
                     time_ns |-> a.time_ns, answer |-> a.answer,
                     global_before |-> Val(h0[Val(self).global_labels]),
                     posted |-> r.posted, raised |-> r.raised])
    /\ calls' = calls + 1
    /\ posts' = posts + Len(r.posted)
    /\ UNCHANGED <<pc, ctorArgs, ctorExc, self, threads, wire>>

CanPush == pc = "constructed" /\ IsNone(call) /\ calls < MaxCalls

\* the heap with the caller's extras and labels dicts of this push
WithArgs(a) == [heap EXCEPT ![CallMessageRef] = Some(a.message),
                            ![CallExtrasRef] = a.extras, ![CallLabelsRef] = a.labels]
ExtrasArg(a) == IF IsNone(a.extras) THEN None ELSE Some(CallExtrasRef)
LabelsArg(a) == IF IsNone(a.labels) THEN None ELSE Some(CallLabelsRef)
Env(a) == [time_ns |-> a.time_ns, answer |-> a.answer]

\* logger.customLevel(level, message, extras, labels)
CustomLevel ==
    /\ CanPush
    /\ \E a \in PushCalls, level \in CustomLevels :
         Pushed("customLevel", level, a, WithArgs(a),
                customLevel(Val(self), level, CallMessageRef, ExtrasArg(a), LabelsArg(a),
                            Env(a), WithArgs(a)))

\* logger.error(message, extras, labels)
Error ==
    /\ CanPush
    /\ \E a \in PushCalls :
         Pushed("error", "error", a, WithArgs(a),
                error(Val(self), CallMessageRef, ExtrasArg(a), LabelsArg(a), Env(a), WithArgs(a)))

\* logger.info(message, extras, labels)
Info ==
    /\ CanPush
    /\ \E a \in PushCalls :
         Pushed("info", "info", a, WithArgs(a),
                info(Val(self), CallMessageRef, ExtrasArg(a), LabelsArg(a), Env(a), WithArgs(a)))

\* logger.warn(message, extras, labels)
Warn ==
    /\ CanPush
    /\ \E a \in PushCalls :
         Pushed("warn", "warn", a, WithArgs(a),
                warn(Val(self), CallMessageRef, ExtrasArg(a), LabelsArg(a), Env(a), WithArgs(a)))

\* logger.debug(message, extras, labels)
Debug ==
    /\ CanPush
    /\ \E a \in PushCalls :
         Pushed("debug", "debug", a, WithArgs(a),
                debug(Val(self), CallMessageRef, ExtrasArg(a), LabelsArg(a), Env(a), WithArgs(a)))

\* the caller is done with the outcome of the push and drops its argument dicts
Return ==
    /\ ~IsNone(call)
    /\ call' = None
    /\ heap' = [heap EXCEPT ![CallMessageRef] = None, ![CallExtrasRef] = None,
                            ![CallLabelsRef] = None]
    /\ UNCHANGED <<pc, ctorArgs, ctorExc, self, calls, posts, threads, wire>>

Next ==
    \/ Construct
    \/ CallerChangesLabels
    \/ CustomLevel
    \/ Error
    \/ Info
    \/ Warn
    \/ Debug
    \/ Return

Spec == Init /\ [][Next]_vars

----------------------------------------------------------------------------
(* Several threads push through one constructed logger. Each thread runs         *)
(* _call_api statement by statement; the statements of different threads         *)
(* interleave. The objects a call creates or is given (its message, extras and   *)
(* labels arguments, its payload and merged_labels) are its own: they live in    *)
(* the thread's frame. The logger and the dict self.global_labels are shared.    *)

PrivateRefs == {CallLabelsRef, CallExtrasRef, CallMessageRef, MergedRef, PayloadRef}

\* the heap as thread t sees it: the shared objects and the objects of its call
View(t) ==
    [r \in Refs |-> IF r \in PrivateRefs THEN threads[t].frame[r] ELSE heap[r]]

\* thread t has run a statement that left the heap it sees as h, and is now as rec
StepTo(t, h, rec) ==
    /\ heap' = [r \in Refs |-> IF r \in PrivateRefs THEN heap[r] ELSE h[r]]
    /\ threads' = [threads EXCEPT
                      ![t] = [rec EXCEPT !.frame = [r \in PrivateRefs |-> h[r]]]]

\* the loggers the threads share
ThreadCtorCalls ==
    [baseUrl : {ValidBaseUrl}, pushUrl : {None},
     severity_label : {None, Some("log_level")}, auth : {None},
     labels : {None, Some(<< <<"app", "info">> >>)}]

\* the pushes a thread makes
ThreadPushCalls ==
    [level : {"info", "error"}, message : {JStr("db down")},
     extras : {None, Some(<< <<"db", JStr("pg")>> >>)},
     labels : {None, Some(<< <<"app", "x">> >>), Some(<< <<"level", "x">> >>)},
     time_ns : {7}]

\* a logger was constructed and no thread has called it yet
InitThreads ==
    \E a \in ThreadCtorCalls :
        LET r == LokiLogger_init(a.baseUrl, a.auth,
                                 Arg(a.severity_label, DefaultSeverityLabel),
                                 Arg(a.pushUrl, DefaultPushUrl),
                                 IF IsNone(a.labels) THEN None ELSE Some(CtorLabelsRef),
                                 [EmptyHeap EXCEPT ![CtorLabelsRef] = a.labels])
        IN  /\ pc = "constructed"
            /\ ctorArgs = Some(a)
            /\ ctorExc = r.raised
            /\ self = r.self
            /\ heap = r.heap
            /\ call = None
            /\ calls = 0
            /\ posts = 0
            /\ threads = [t \in Threads |-> IdleThread]
            /\ wire = <<>>

\* thread t calls logger.info(...) or logger.error(...): _call_api is entered
ThreadCalls(t) ==
    /\ threads[t].pc = "idle"
    /\ \E a \in ThreadPushCalls :
         threads' = [threads EXCEPT ![t] =
            [pc |-> "payload", level |-> a.level, message |-> a.message,
             extras |-> a.extras, labels |-> a.labels, time_ns |-> a.time_ns,
             frame |-> [r \in PrivateRefs |->
                          CASE r = CallMessageRef -> Some(a.message)
                            [] r = CallExtrasRef -> a.extras
                            [] r = CallLabelsRef -> a.labels
                            [] OTHER -> None],
             merged |-> None, answer |-> None, raised |-> None]]
    /\ calls' = calls + 1
    /\ UNCHANGED <<pc, ctorArgs, ctorExc, self, heap, call, posts, wire>>

\* payload = {"message": message}; payload.update(extras)
ThreadBuildsPayload(t) ==
    /\ threads[t].pc = "payload"
    /\ StepTo(t, BuildPayload(CallMessageRef,
                              IF IsNone(threads[t].extras) THEN None
                              ELSE Some(CallExtrasRef),
                              View(t)),
              [threads[t] EXCEPT !.pc = "copy"])
    /\ UNCHANGED <<pc, ctorArgs, ctorExc, self, call, calls, posts, wire>>

\* merged_labels = self.global_labels.copy()
ThreadCopiesLabels(t) ==
    /\ threads[t].pc = "copy"
    /\ LET c == CopyGlobalLabels(Val(self), View(t))
       IN  StepTo(t, c.heap, [threads[t] EXCEPT !.pc = "update", !.merged = Some(c.ref)])
    /\ UNCHANGED <<pc, ctorArgs, ctorExc, self, call, calls, posts, wire>>

\* if labels is not None: merged_labels.update(labels)
ThreadUpdatesLabels(t) ==
    /\ threads[t].pc = "update"
    /\ StepTo(t, UpdateWithLabels(Val(threads[t].merged),
                                  IF IsNone(threads[t].labels) THEN None
                                  ELSE Some(CallLabelsRef),
                                  View(t)),
              [threads[t] EXCEPT !.pc = "severity"])
    /\ UNCHANGED <<pc, ctorArgs, ctorExc, self, call, calls, posts, wire>>

\* merged_labels[self.severity_label] = level
ThreadSetsSeverity(t) ==
    /\ threads[t].pc = "severity"
    /\ StepTo(t, SetSeverity(Val(self), Val(threads[t].merged), threads[t].level, View(t)),
              [threads[t] EXCEPT !.pc = "post"])
    /\ UNCHANGED <<pc, ctorArgs, ctorExc, self, call, calls, posts, wire>>

\* reqBody = {...}; requests.post(url, json=reqBody, ...) is entered
ThreadPosts(t) ==
    /\ threads[t].pc = "post"
    /\ LET reqBody == BuildReqBody(Val(threads[t].merged), threads[t].time_ns, View(t))
           url == Val(self).baseUrl \o Val(self).pushUrl
       IN  wire' = Append(wire, [from |-> t, request |-> PostCall(Val(self), url, reqBody)])
    /\ posts' = posts + 1
    /\ threads' = [threads EXCEPT ![t].pc = "wait"]
    /\ UNCHANGED <<pc, ctorArgs, ctorExc, self, heap, call, calls>>

\* requests.post returns a response or raises, and _call_api returns or raises
ThreadGetsAnswer(t) ==
    /\ threads[t].pc = "wait"
    /\ \E answer \in {Delivered, Rejected, TimedOut} :
         threads' = [threads EXCEPT
            ![t].pc = "done",
            ![t].answer = Some(answer),
            ![t].raised = ExceptClause(TryBody(answer),
                                       Val(self).baseUrl \o Val(self).pushUrl)]
    /\ UNCHANGED <<pc, ctorArgs, ctorExc, self, heap, call, calls, posts, wire>>

NextThreads ==
    \E t \in Threads :
        \/ ThreadCalls(t)
        \/ ThreadBuildsPayload(t)
        \/ ThreadCopiesLabels(t)
        \/ ThreadUpdatesLabels(t)
        \/ ThreadSetsSeverity(t)
        \/ ThreadPosts(t)
        \/ ThreadGetsAnswer(t)

SpecThreads == InitThreads /\ [][NextThreads]_vars

----------------------------------------------------------------------------
(* Properties *)

\* the push call the caller holds the outcome of, its single request and the
\* stream labels of that request
TheCall == Val(call)
TheRequest == TheCall.posted[1]
TheStream == TheRequest.json.streams[1].stream
TheLogger == Val(self)
Failed(c) == ~IsNone(c.raised)
WellFormed(d) == \A i, j \in DOMAIN d : d[i][1] = d[j][1] => i = j

\* C1: LokiLogger(...) raises LokiConfigurationError exactly when baseUrl is empty,
\* baseUrl ends with "/" or pushUrl does not start with "/"; otherwise it succeeds
\* and the logger holds the baseUrl, pushUrl, severity_label and auth it was given,
\* with "/loki/api/v1/push", "level" and None for the arguments not passed.
C1_ConstructionValidation ==
    ~IsNone(ctorArgs) =>
        LET a == Val(ctorArgs)
            push == IF a.pushUrl = None THEN DefaultPushUrl ELSE a.pushUrl[1]
            invalid == \/ a.baseUrl = <<>>
                       \/ a.baseUrl[Len(a.baseUrl)] = "/"
                       \/ push = <<>>
                       \/ push[1] # "/"
        IN  IF invalid
            THEN /\ pc = "ctor_failed"
                 /\ self = None
                 /\ ~IsNone(ctorExc)
                 /\ Val(ctorExc).cls = "LokiConfigurationError"
            ELSE /\ pc = "constructed"
                 /\ ctorExc = None
                 /\ ~IsNone(self)
                 /\ TheLogger.baseUrl = a.baseUrl
                 /\ TheLogger.pushUrl = push
                 /\ TheLogger.severity_label =
                        (IF a.severity_label = None THEN "level" ELSE a.severity_label[1])
                 /\ TheLogger.auth = a.auth

\* a two-character baseUrl ending in "/" was refused
C1_Witness ==
    /\ pc = "ctor_failed"
    /\ Val(ctorArgs).baseUrl = <<"h", "/">>
    /\ Val(ctorArgs).pushUrl = Some(<<"/">>)

\* C2: the stream labels of the request of every push map the configured severity
\* label key to the invoked level, also when the default labels or the caller's
\* labels hold that key with another value.
C2_SeverityLabelIsLevel ==
    ~IsNone(call) =>
        /\ Len(TheCall.posted) >= 1
        /\ WellFormed(TheStream)
        /\ DictHas(TheStream, TheLogger.severity_label)
        /\ DictGet(TheStream, TheLogger.severity_label) = TheCall.level

\* a push whose caller labels hold the severity key with a value other than the level
C2_Witness ==
    /\ ~IsNone(call)
    /\ ~IsNone(TheCall.labels)
    /\ DictHas(Val(TheCall.labels), TheLogger.severity_label)
    /\ DictGet(Val(TheCall.labels), TheLogger.severity_label) # TheCall.level
    /\ TheLogger.severity_label = "log_level"

\* C3: with default labels D and caller labels L, each key other than the severity
\* key that is in L carries L's value in the stream labels, and each key in D but
\* not in L carries D's value.
C3_CallerLabelsWin ==
    ~IsNone(call) =>
        LET D == TheCall.global_before
            L == IF IsNone(TheCall.labels) THEN <<>> ELSE Val(TheCall.labels)
        IN  \A k \in (DictKeys(D) \cup DictKeys(L)) \ {TheLogger.severity_label} :
                /\ DictHas(TheStream, k)
                /\ DictGet(TheStream, k) = IF DictHas(L, k) THEN DictGet(L, k)
                                           ELSE DictGet(D, k)

\* a push whose caller labels and default labels hold the same key, not the severity
\* key, with different values
C3_Witness ==
    /\ ~IsNone(call)
    /\ ~IsNone(TheCall.labels)
    /\ \E k \in DictKeys(Val(TheCall.labels)) \cap DictKeys(TheCall.global_before) :
          /\ k # TheLogger.severity_label
          /\ DictGet(Val(TheCall.labels), k) # DictGet(TheCall.global_before, k)

\* C4: after a push, succeeded or failed, the stored default-label dict and the
\* caller's labels dict hold the keys and values they held before the call.
C4_PushMutatesNoLabelDict ==
    ~IsNone(call) =>
        /\ AsMap(Val(heap[TheLogger.global_labels])) = AsMap(TheCall.global_before)
        /\ heap[CallLabelsRef] = TheCall.labels

\* a failed push with caller labels on a logger with non-empty default labels
C4_Witness ==
    /\ ~IsNone(call)
    /\ Failed(TheCall)
    /\ ~IsNone(TheCall.labels)
    /\ Val(TheCall.labels) # <<>>
    /\ TheCall.global_before # <<>>

\* C5: the logger's stored default labels are those the labels= dict held at
\* construction time, whatever the caller does to that dict afterwards.
C5_DefensiveCopy ==
    pc = "constructed" =>
        AsMap(Val(heap[TheLogger.global_labels])) =
            AsMap(IF IsNone(Val(ctorArgs).labels) THEN <<>> ELSE Val(Val(ctorArgs).labels))

\* C5, for the pushes: the stream labels of a push are built from the default labels
\* of construction time.
C5_PushUsesConstructionLabels ==
    ~IsNone(call) =>
        AsMap(TheCall.global_before) =
            AsMap(IF IsNone(Val(ctorArgs).labels) THEN <<>> ELSE Val(Val(ctorArgs).labels))

\* C6: when the endpoint answers, the push returns normally iff the status is 204;
\* for every other status it raises LokiPushError with that status_code and the
\* response body as response_text, and never LokiConnectionError.
C6_Non204IsPushError ==
    (~IsNone(call) /\ TheCall.answer.kind = "response") =>
        IF TheCall.answer.status_code = 204
        THEN TheCall.raised = None
        ELSE /\ Failed(TheCall)
             /\ Val(TheCall.raised).cls = "LokiPushError"
             /\ Val(TheCall.raised).status_code = TheCall.answer.status_code
             /\ Val(TheCall.raised).response_text = TheCall.answer.text

\* a push the endpoint answered with 200 and a body
C6_Witness ==
    /\ ~IsNone(call)
    /\ TheCall.answer.kind = "response"
    /\ TheCall.answer.status_code = 200
    /\ TheCall.answer.text = <<"boom">>
    /\ Failed(TheCall)

\* C7: when the POST fails at transport level the push raises LokiConnectionError,
\* whose message contains the URL baseUrl + pushUrl and the text of the cause.
C7_TransportFailureIsConnectionError ==
    (~IsNone(call) /\ TheCall.answer.kind = "exception") =>
        /\ Failed(TheCall)
        /\ Val(TheCall.raised).cls = "LokiConnectionError"
        /\ Contains(Val(TheCall.raised).args, TheLogger.baseUrl \o TheLogger.pushUrl)
        /\ Contains(Val(TheCall.raised).args, TheCall.answer.text)

\* a push whose POST timed out, on a logger with a pushUrl of its own
C7_Witness ==
    /\ ~IsNone(call)
    /\ TheCall.answer.kind = "exception"
    /\ TheCall.answer.cls = "ConnectTimeout"
    /\ TheLogger.pushUrl = <<"/", "h">>

\* C8: every push call makes exactly one POST attempt whatever its outcome, so
\* after n push calls n requests have been issued.
C8_OnePostPerPush ==
    /\ posts = calls
    /\ ~IsNone(call) => Len(TheCall.posted) = 1

\* a second push, which failed at transport level
C8_Witness ==
    /\ calls = 2
    /\ ~IsNone(call)
    /\ TheCall.answer.kind = "exception"

\* C9: no push call raises LokiConfigurationError: what a push raises is a
\* LokiPushError or a LokiConnectionError.
C9_PushNeverRaisesConfigurationError ==
    (~IsNone(call) /\ Failed(TheCall)) =>
        /\ Val(TheCall.raised).cls # "LokiConfigurationError"
        /\ Val(TheCall.raised).cls \in {"LokiPushError", "LokiConnectionError"}

\* a push that failed on a logger built with arguments of its own
C9_Witness ==
    /\ ~IsNone(call)
    /\ Failed(TheCall)
    /\ TheCall.answer.kind = "exception"
    /\ Val(ctorArgs).pushUrl = Some(<<"/", "/">>)

\* what the push held in `call` posts when it is made again by logger slf with the
\* extras and labels dicts ex and lb (None or Some(dict)), default labels g
Replay(slf, g, ex, lb) ==
    LET c == TheCall
        h == [EmptyHeap EXCEPT ![slf.global_labels] = Some(g),
                               ![CallMessageRef] = Some(c.message),
                               ![CallExtrasRef] = ex, ![CallLabelsRef] = lb]
    IN  LokiLogger_call_api(slf, c.level, CallMessageRef,
                            IF IsNone(ex) THEN None ELSE Some(CallExtrasRef),
                            IF IsNone(lb) THEN None ELSE Some(CallLabelsRef),
                            [time_ns |-> c.time_ns, answer |-> c.answer], h)

\* C10: a push without extras posts what it posts with extras={}, a push without
\* labels posts what it posts with labels={}, and a logger constructed without
\* default labels posts what one constructed with labels={} posts.
C10_AbsentIsEmpty ==
    ~IsNone(call) =>
        LET c == TheCall
            a == Val(ctorArgs)
            built == LokiLogger_init(a.baseUrl, a.auth,
                                     Arg(a.severity_label, DefaultSeverityLabel),
                                     Arg(a.pushUrl, DefaultPushUrl), Some(CtorLabelsRef),
                                     [EmptyHeap EXCEPT ![CtorLabelsRef] = Some(<<>>)])
        IN  /\ IsNone(c.extras) =>
                Replay(TheLogger, c.global_before, Some(<<>>), c.labels).posted = c.posted
            /\ IsNone(c.labels) =>
                Replay(TheLogger, c.global_before, c.extras, Some(<<>>)).posted = c.posted
            /\ IsNone(a.labels) =>
                Replay(Val(built.self), Val(built.heap[CtorLabelsRef]),
                       c.extras, c.labels).posted = c.posted

\* a push without extras and without labels on a logger built without labels
C10_Witness ==
    /\ ~IsNone(call)
    /\ IsNone(TheCall.extras)
    /\ IsNone(TheCall.labels)
    /\ IsNone(Val(ctorArgs).labels)
    /\ Len(TheCall.posted) = 1

\* the payload of the request, decoded from its log line
ThePayload == json_loads(TheRequest.json.streams[1].values[1][2])
TheExtras == IF IsNone(TheCall.extras) THEN <<>> ELSE Val(TheCall.extras)

\* C11: the payload of every push is {"message": message} overlaid with the extras:
\* its keys are "message" and the extras keys, every extras key holds its extras
\* value, and "message" holds the message unless extras has a key "message".
C11_PayloadIsMessageAndExtras ==
    ~IsNone(call) =>
        /\ ThePayload.t = "dict"
        /\ WellFormed(ThePayload.d)
        /\ DictKeys(ThePayload.d) = {"message"} \cup DictKeys(TheExtras)
        /\ \A k \in DictKeys(TheExtras) :
              DictGet(ThePayload.d, k) = DictGet(TheExtras, k)
        /\ ~DictHas(TheExtras, "message") =>
              DictGet(ThePayload.d, "message") = TheCall.message

\* a push of a structured message whose extras hold "message" and another key
C11_Witness ==
    /\ ~IsNone(call)
    /\ TheCall.message.t = "dict"
    /\ DictKeys(TheExtras) = {"message", "db"}

\* what logger.customLevel(level, ...) posts and raises when it is called with the
\* message, extras, labels and environment of the push held in `call`
AsCustomLevel(level) ==
    LET c == TheCall
        h == [EmptyHeap EXCEPT ![TheLogger.global_labels] = Some(c.global_before),
                               ![CallMessageRef] = Some(c.message),
                               ![CallExtrasRef] = c.extras, ![CallLabelsRef] = c.labels]
        r == customLevel(TheLogger, level, CallMessageRef,
                         IF IsNone(c.extras) THEN None ELSE Some(CallExtrasRef),
                         IF IsNone(c.labels) THEN None ELSE Some(CallLabelsRef),
                         [time_ns |-> c.time_ns, answer |-> c.answer], h)
    IN  [posted |-> r.posted, raised |-> r.raised]

\* C12: info, warn, error and debug post the request and have the outcome of
\* customLevel called with level "info", "warn", "error" and "debug" and the same
\* message, extras and labels.
C12_WrappersAreCustomLevel ==
    ~IsNone(call) =>
        LET got == [posted |-> TheCall.posted, raised |-> TheCall.raised]
        IN  /\ TheCall.method = "info" => got = AsCustomLevel("info")
            /\ TheCall.method = "warn" => got = AsCustomLevel("warn")
            /\ TheCall.method = "error" => got = AsCustomLevel("error")
            /\ TheCall.method = "debug" => got = AsCustomLevel("debug")

\* a warn push with labels and extras that the endpoint refused
C12_Witness ==
    /\ ~IsNone(call)
    /\ TheCall.method = "warn"
    /\ ~IsNone(TheCall.labels)
    /\ ~IsNone(TheCall.extras)
    /\ TheCall.answer.kind = "response"
    /\ TheCall.answer.status_code = 500

\* C13: every push posts to the URL baseUrl + pushUrl of the configuration, with
\* basic-auth credentials iff a pair was configured at construction, and then
\* with that pair.
C13_PostsToConfiguredUrlWithAuth ==
    ~IsNone(call) =>
        LET a == Val(ctorArgs)
        IN  /\ Len(TheCall.posted) >= 1
            /\ TheRequest.url =
                   a.baseUrl \o (IF a.pushUrl = None THEN DefaultPushUrl ELSE a.pushUrl[1])
            /\ IsNone(TheRequest.auth) <=> IsNone(a.auth)
            /\ ~IsNone(a.auth) => TheRequest.auth = Some(Val(a.auth))

\* a push of a logger configured with credentials and a pushUrl of its own
C13_Witness ==
    /\ ~IsNone(call)
    /\ Val(ctorArgs).auth = Some(AuthPair)
    /\ Val(ctorArgs).pushUrl = Some(<<"/", "h">>)
    /\ Val(ctorArgs).baseUrl = <<"/", "h">>

\* the number a string of decimal digits denotes; -1 when it is no such string
DigitValue(c) == CASE c = "0" -> 0 [] c = "1" -> 1 [] c = "2" -> 2 [] c = "3" -> 3
                   [] c = "4" -> 4 [] c = "5" -> 5 [] c = "6" -> 6 [] c = "7" -> 7
                   [] c = "8" -> 8 [] c = "9" -> 9 [] OTHER -> -1
RECURSIVE DecimalValue(_)
DecimalValue(str) ==
    IF str = <<>> \/ DigitValue(str[Len(str)]) < 0 THEN -1
    ELSE IF Len(str) = 1 THEN DigitValue(str[1])
    ELSE LET hi == DecimalValue(SubSeq(str, 1, Len(str) - 1))
         IN  IF hi < 0 THEN -1 ELSE hi * 10 + DigitValue(str[Len(str)])

\* C14: the request body of every push holds exactly one stream, and that stream
\* exactly one value entry: the pair of the timestamp, as a string of decimal
\* digits, and the JSON encoding of the payload dict.
C14_OneStreamOneLine ==
    ~IsNone(call) =>
        /\ Len(TheCall.posted) >= 1
        /\ Len(TheRequest.json.streams) = 1
        /\ LET values == TheRequest.json.streams[1].values
           IN  /\ Len(values) = 1
               /\ Len(values[1]) = 2
               /\ DecimalValue(values[1][1]) = TheCall.time_ns
               /\ json_loads(values[1][2]).t = "dict"
               /\ json_dumps(json_loads(values[1][2]).d) = values[1][2]

\* a push with extras at a time of several digits
C14_Witness ==
    /\ ~IsNone(call)
    /\ Len(TheExtras) = 2
    /\ TheCall.time_ns = 1700

\* the stream labels and the payload a push is to send, as maps, from the default
\* labels D, the caller's labels and extras (None or Some(dict)), the severity key,
\* the level and the message
LabelsToSend(D, labels, sev, level) ==
    LET L == IF IsNone(labels) THEN <<>> ELSE Val(labels)
    IN  [k \in DictKeys(D) \cup DictKeys(L) \cup {sev} |->
            IF k = sev THEN level
            ELSE IF DictHas(L, k) THEN DictGet(L, k) ELSE DictGet(D, k)]
PayloadToSend(message, extras) ==
    LET E == IF IsNone(extras) THEN <<>> ELSE Val(extras)
    IN  [k \in {"message"} \cup DictKeys(E) |->
            IF DictHas(E, k) THEN DictGet(E, k) ELSE message]

Posted(t) == threads[t].pc \in {"wait", "done"}
RequestsOf(t) == {i \in DOMAIN wire : wire[i].from = t}

\* C15: under every interleaving of the threads' calls, each call that has posted
\* has exactly one request on the wire, built from the configuration and its own
\* level, message, extras and labels only; a call that has not posted has none, and
\* the wire holds no other request.
C15_ConcurrentCallsAreIndependent ==
    LET a == Val(ctorArgs)
        D == IF IsNone(a.labels) THEN <<>> ELSE Val(a.labels)
        sev == IF a.severity_label = None THEN "level" ELSE a.severity_label[1]
    IN  /\ Len(wire) = Cardinality({t \in Threads : Posted(t)})
        /\ \A t \in Threads :
            IF Posted(t)
            THEN /\ Cardinality(RequestsOf(t)) = 1
                 /\ LET req == wire[CHOOSE i \in RequestsOf(t) : TRUE].request
                        stream == req.json.streams[1].stream
                        line == req.json.streams[1].values[1][2]
                    IN  /\ WellFormed(stream)
                        /\ AsMap(stream) =
                               LabelsToSend(D, threads[t].labels, sev, threads[t].level)
                        /\ AsMap(json_loads(line).d) =
                               PayloadToSend(threads[t].message, threads[t].extras)
            ELSE RequestsOf(t) = {}

\* two calls with different labels, levels and extras, both waiting for the answer
\* to their request, on a logger with default labels
C15_Witness ==
    /\ threads["t1"].pc = "wait"
    /\ threads["t2"].pc = "wait"
    /\ wire[1].from = "t2"
    /\ threads["t1"].labels = Some(<< <<"app", "x">> >>)
    /\ threads["t2"].labels = Some(<< <<"level", "x">> >>)
    /\ threads["t1"].level # threads["t2"].level
    /\ threads["t1"].extras # threads["t2"].extras
    /\ ~IsNone(Val(ctorArgs).labels)

\* what the push c posts and raises when logger slf with default labels g makes it
\* with nothing else on the heap
OnFreshHeap(slf, g, c) ==
    LET h == [EmptyHeap EXCEPT ![slf.global_labels] = Some(g),
                               ![CallMessageRef] = Some(c.message),
                               ![CallExtrasRef] = c.extras, ![CallLabelsRef] = c.labels]
        r == LokiLogger_call_api(slf, c.level, CallMessageRef,
                                 IF IsNone(c.extras) THEN None ELSE Some(CallExtrasRef),
                                 IF IsNone(c.labels) THEN None ELSE Some(CallLabelsRef),
                                 [time_ns |-> c.time_ns, answer |-> c.answer], h)
    IN  [posted |-> r.posted, raised |-> r.raised]

\* the values LokiLogger(...) was given, as the logger holds them
ConfiguredAs(slf, a) ==
    /\ slf.baseUrl = a.baseUrl
    /\ slf.pushUrl = (IF a.pushUrl = None THEN DefaultPushUrl ELSE a.pushUrl[1])
    /\ slf.severity_label = (IF a.severity_label = None THEN "level" ELSE a.severity_label[1])
    /\ slf.auth = a.auth

\* C16: a push, whatever its outcome and whatever pushes came before, leaves the
\* logger's baseUrl, pushUrl, severity_label, auth and default labels as they were:
\* those of construction (the default labels as long as the caller has not changed
\* the dict they passed); and what it posts and raises is what the configuration,
\* its own arguments and the endpoint's answer give on an otherwise empty heap.
C16_PushesAreStateless ==
    [][(IsNone(call) /\ ~IsNone(call')) =>
          /\ self' = self
          /\ ConfiguredAs(Val(self'), Val(ctorArgs'))
          /\ heap'[Val(self).global_labels] = heap[Val(self).global_labels]
          /\ heap'[CtorLabelsRef] = Val(ctorArgs').labels =>
                AsMap(Val(heap'[Val(self').global_labels])) =
                    AsMap(IF IsNone(Val(ctorArgs').labels) THEN <<>>
                          ELSE Val(Val(ctorArgs').labels))
          /\ [posted |-> Val(call').posted, raised |-> Val(call').raised] =
                OnFreshHeap(Val(self), Val(heap[Val(self).global_labels]), Val(call'))
      ]_vars

\* a second push, with labels, on a logger with default labels, whose POST failed
C16_Witness ==
    /\ calls = 2
    /\ ~IsNone(call)
    /\ Failed(TheCall)
    /\ ~IsNone(TheCall.labels)
    /\ TheCall.global_before # <<>>
    /\ heap[CtorLabelsRef] = Val(ctorArgs).labels

\* the labels argument of the push, {} when not passed
TheLabels == IF IsNone(TheCall.labels) THEN <<>> ELSE Val(TheCall.labels)

\* C17: the stream labels of every push have exactly the keys of the default labels,
\* the keys of the caller's labels and the severity label key, each once; "level"
\* is among them only when it is one of those.
C17_StreamKeysAreTheUnion ==
    ~IsNone(call) =>
        /\ Len(TheCall.posted) >= 1
        /\ WellFormed(TheStream)
        /\ DictKeys(TheStream) = DictKeys(TheCall.global_before) \cup DictKeys(TheLabels)
                                     \cup {TheLogger.severity_label}
        /\ (/\ TheLogger.severity_label # "level"
            /\ ~DictHas(TheCall.global_before, "level")
            /\ ~DictHas(TheLabels, "level")) => ~DictHas(TheStream, "level")

\* a push of a logger with severity label "log_level" and default labels, where
\* neither the default labels nor the caller's labels have a key "level"
C17_Witness ==
    /\ ~IsNone(call)
    /\ Len(TheCall.posted) >= 1
    /\ TheLogger.severity_label = "log_level"
    /\ TheCall.global_before # <<>>
    /\ ~DictHas(TheCall.global_before, "level")
    /\ ~DictHas(TheLabels, "level")
    /\ ~DictHas(TheStream, "level")

\* C18: customLevel sends its request whatever the level string is, the empty string
\* included: one POST, whose severity label holds the level as given, and the call
\* raises what the same call with the level "critical" raises for the same answer:
\* nothing when the endpoint answers 204.
C18_CustomLevelTakesAnyLevel ==
    (~IsNone(call) /\ TheCall.method = "customLevel") =>
        /\ Len(TheCall.posted) = 1
        /\ DictHas(TheStream, TheLogger.severity_label)
        /\ DictGet(TheStream, TheLogger.severity_label) = TheCall.level
        /\ TheCall.raised =
              OnFreshHeap(TheLogger, TheCall.global_before,
                          [TheCall EXCEPT !.level = "critical"]).raised
        /\ TheCall.answer = Delivered => IsNone(TheCall.raised)

\* customLevel("", ...) was called, its request went out with the severity label ""
\* and the endpoint answered 204
C18_Witness ==
    /\ ~IsNone(call)
    /\ TheCall.method = "customLevel"
    /\ TheCall.level = ""
    /\ TheCall.answer = Delivered
    /\ Len(TheCall.posted) = 1
    /\ DictGet(TheStream, TheLogger.severity_label) = ""
    /\ IsNone(TheCall.raised)

\* C19: after a push, delivered or failed, the caller's extras dict holds the items
\* it held when the call was made, in their order, with no "message" key added,
\* and the caller's message object holds the value it held.
C19_PushLeavesExtrasAndMessage ==
    ~IsNone(call) =>
        /\ heap[CallExtrasRef] = TheCall.extras
        /\ heap[CallMessageRef] = Some(TheCall.message)
        /\ (~IsNone(TheCall.extras) /\ ~DictHas(TheExtras, "message")) =>
              ~DictHas(Val(heap[CallExtrasRef]), "message")

\* a push of a dict message with extras that have no "message" key has failed
C19_Witness ==
    /\ ~IsNone(call)
    /\ Failed(TheCall)
    /\ Len(TheCall.posted) = 1
    /\ TheCall.message.t = "dict"
    /\ ~IsNone(TheCall.extras)
    /\ TheExtras # <<>>
    /\ ~DictHas(TheExtras, "message")
    /\ heap[CallExtrasRef] = TheCall.extras

\* a push with extras that have no "message" key was delivered
C19_WitnessDelivered ==
    /\ ~IsNone(call)
    /\ ~Failed(TheCall)
    /\ ~IsNone(TheCall.extras)
    /\ TheExtras # <<>>
    /\ ~DictHas(TheExtras, "message")
    /\ heap[CallExtrasRef] = TheCall.extras

====
